---------------------------- MODULE Spec2Model ----------------------------
(***************************************************************************)
(* Model of the cashbook backend (src/books): the relational store         *)
(* (Business, Cashbook, Member, Category, Party, PaymentMode, Transaction) *)
(* and the REST handlers of src/books/views.py that read and write it.     *)
(*                                                                         *)
(* Every handler is one action (a request that runs alone), except         *)
(* set_default, which is also modelled statement by statement for the      *)
(* concurrent specification SpecSetDefault: views.py opens no transaction  *)
(* (no transaction.atomic anywhere in src/), so under Django's autocommit  *)
(* each ORM statement commits on its own.                                  *)
(***************************************************************************)
EXTENDS Integers, FiniteSets, Sequences, TLC

(* ------------------------------- bounds -------------------------------- *)
MaxBusinesses == 2

MaxCashbooks == 2

MaxMembers == 1

MaxTransactions == 1

MaxCategories == 1

MaxParties == 1

MaxPaymentModes == 1

MaxAmount == 1

MaxRequests == 2

(* ------------------------------ constants ------------------------------ *)
\* settings.AUTH_USER_MODEL rows; registration is outside src/books.
Users == {"u1", "u2"}

\* Member.ROLE_CHOICES
ROLE_CHOICES == {"ADMIN", "EDITOR", "VIEWER"}

\* Transaction.TYPE_CHOICES
TYPE_CHOICES == {"IN", "OUT"}

\* a null foreign key (null=True)
NoId == 0

BusinessIds == 1..MaxBusinesses

CashbookIds == 1..MaxCashbooks

MemberIds == 1..MaxMembers

TransactionIds == 1..MaxTransactions

CategoryIds == 1..MaxCategories

PartyIds == 1..MaxParties

PaymentModeIds == 1..MaxPaymentModes

\* amounts a client may send: 0 stands for every non-positive amount
Amounts == 0..MaxAmount

(* -------------------------------- state -------------------------------- *)
VARIABLES
    Business,     \* set of [id, owner]
    Cashbook,     \* set of [id, business, is_default]
    Member,       \* set of [id, user, business, role]
    Category,     \* set of [id, business]
    Party,        \* set of [id, business]
    PaymentMode,  \* set of [id, business]
    Transaction,  \* set of [id, cashbook, type, amount, category, party, payment_mode, created_by]
    response,     \* the last request served and how it ended: [op, pk, status]
    req           \* in-flight set_default requests: [pc, obj, before]

vars == <<Business, Cashbook, Member, Category, Party, PaymentMode, Transaction, response, req>>

store == <<Business, Cashbook, Member, Category, Party, PaymentMode, Transaction>>

(* ------------------------------- helpers ------------------------------- *)
\* primary keys of a table
Ids(table) == {r.id : r \in table}

\* Model.objects.get(id=pk)
Row(table, pk) == CHOOSE r \in table : r.id = pk

\* id = UUIDField(default=uuid.uuid4): an id no row of the table holds
FreshId(table, ids) == CHOOSE i \in ids : i \notin Ids(table) /\ \A j \in ids : j < i => j \in Ids(table)

\* an optional request field: absent ({}) or one value
Opt(S) == {{}} \cup {{x} : x \in S}

\* serializer.save() on a field: the value sent, else the stored one
Given(field, old) == IF field = {} THEN old ELSE CHOOSE x \in field : TRUE

\* Model.save(): UPDATE the row with this primary key, INSERT when there is none
Save(table, obj) == {r \in table : r.id # obj.id} \cup {obj}

Resp(op, pk, status) == [op |-> op, pk |-> pk, status |-> status]

\* business.owner == user
IsOwner(user, business) == \E b \in Business : b.id = business /\ b.owner = user

\* Member.objects.filter(business=business, user=user)
Membership(user, business) == {m \in Member : m.user = user /\ m.business = business}

\* Q(business__owner=user) | Q(business__members__user=user)
HasAccess(user, business) == IsOwner(user, business) \/ Membership(user, business) # {}

\* business.members
MembersOf(business) == {m \in Member : m.business = business}

\* qs.filter(business__owner=user) | qs.filter(business__members__user=user)
\* without .distinct(): the two filters are OR-ed over one LEFT OUTER JOIN on
\* the business's Member rows, so a row of the business comes back once per
\* joined Member row that passes (owner: every Member row, or the one
\* all-NULL row when the business has none; otherwise: the user's own)
JoinedRows(user, business) ==
    IF IsOwner(user, business)
    THEN IF MembersOf(business) = {} THEN 1 ELSE Cardinality(MembersOf(business))
    ELSE Cardinality(Membership(user, business))

(* ----------------------------- BusinessViewSet ------------------------- *)
BusinessCreate(user) ==
    /\ Cardinality(Business) < MaxBusinesses
    /\ Business' = Business \cup {[id |-> FreshId(Business, BusinessIds), owner |-> user]}
    /\ response' = Resp("business_create", NoId, "created")
    /\ UNCHANGED <<Cashbook, Member, Category, Party, PaymentMode, Transaction, req>>

(* ----------------------------- CashbookViewSet ------------------------- *)
\* get_queryset
CashbookQueryset(user) == {c \in Cashbook : HasAccess(user, c.business)}

\* CashbookSerializer: business is a required key to an existing Business on
\* create (fields = '__all__'), is_default a writable boolean
CashbookPayloads == [business : Opt(BusinessIds), is_default : Opt(BOOLEAN)]

CashbookValid(data, partial) ==
    /\ partial \/ data.business # {}
    /\ data.business \subseteq Ids(Business)

\* perform_create: the caller's first business, or a new one
CashbookCreate(user, data) ==
    \/ /\ ~CashbookValid(data, FALSE)
       /\ response' = Resp("cashbook_create", NoId, "ValidationError")
       /\ UNCHANGED <<store, req>>
    \/ /\ CashbookValid(data, FALSE)
       /\ Cardinality(Cashbook) < MaxCashbooks
       /\ \E b \in Business :
            /\ b.owner = user
            /\ Cashbook' = Cashbook \cup
                 {[id |-> FreshId(Cashbook, CashbookIds), business |-> b.id,
                   is_default |-> Given(data.is_default, FALSE)]}
       /\ response' = Resp("cashbook_create", FreshId(Cashbook, CashbookIds), "created")
       /\ UNCHANGED <<Business, Member, Category, Party, PaymentMode, Transaction, req>>
    \/ /\ CashbookValid(data, FALSE)
       /\ Cardinality(Cashbook) < MaxCashbooks
       /\ Cardinality(Business) < MaxBusinesses
       /\ ~\E b \in Business : b.owner = user
       /\ Business' = Business \cup {[id |-> FreshId(Business, BusinessIds), owner |-> user]}
       /\ Cashbook' = Cashbook \cup
            {[id |-> FreshId(Cashbook, CashbookIds), business |-> FreshId(Business, BusinessIds),
              is_default |-> Given(data.is_default, FALSE)]}
       /\ response' = Resp("cashbook_create", FreshId(Cashbook, CashbookIds), "created")
       /\ UNCHANGED <<Member, Category, Party, PaymentMode, Transaction, req>>

\* UpdateModelMixin (PATCH): get_object, validation, serializer.save()
CashbookUpdate(user, pk, data) ==
    \/ /\ pk \notin Ids(CashbookQueryset(user))
       /\ response' = Resp("cashbook_update", pk, "NotFound")
       /\ UNCHANGED <<store, req>>
    \/ /\ pk \in Ids(CashbookQueryset(user))
       /\ ~CashbookValid(data, TRUE)
       /\ response' = Resp("cashbook_update", pk, "ValidationError")
       /\ UNCHANGED <<store, req>>
    \/ /\ pk \in Ids(CashbookQueryset(user))
       /\ CashbookValid(data, TRUE)
       /\ LET cashbook == Row(Cashbook, pk)
          IN Cashbook' = Save(Cashbook, [id |-> pk,
                                         business |-> Given(data.business, cashbook.business),
                                         is_default |-> Given(data.is_default, cashbook.is_default)])
       /\ response' = Resp("cashbook_update", pk, "ok")
       /\ UNCHANGED <<Business, Member, Category, Party, PaymentMode, Transaction, req>>

\* DestroyModelMixin: get_object, instance.delete(); Transaction.cashbook is CASCADE
CashbookDestroy(user, pk) ==
    \/ /\ pk \notin Ids(CashbookQueryset(user))
       /\ response' = Resp("cashbook_destroy", pk, "NotFound")
       /\ UNCHANGED <<store, req>>
    \/ /\ pk \in Ids(CashbookQueryset(user))
       /\ Cashbook' = {c \in Cashbook : c.id # pk}
       /\ Transaction' = {t \in Transaction : t.cashbook # pk}
       /\ response' = Resp("cashbook_destroy", pk, "deleted")
       /\ UNCHANGED <<Business, Member, Category, Party, PaymentMode, req>>

\* Cashbook.objects.filter(business=cashbook.business).update(is_default=False)
ClearDefaultNone(table, business) == table

ClearDefault(table, business) ==
    {IF c.business = business THEN [c EXCEPT !.is_default = FALSE] ELSE c : c \in table}

\* cashbook.is_default = True; cashbook.save()
SaveDefault(table, cashbook) == Save(table, [cashbook EXCEPT !.is_default = TRUE])

\* set_default served alone: get_object, clear the business's flags, save the target
SetDefault(user, pk) ==
    \/ /\ pk \notin Ids(CashbookQueryset(user))
       /\ response' = Resp("set_default", pk, "NotFound")
       /\ UNCHANGED <<store, req>>
    \/ /\ pk \in Ids(CashbookQueryset(user))
       /\ LET cashbook == Row(Cashbook, pk)
          IN Cashbook' = SaveDefault(ClearDefault(Cashbook, cashbook.business), cashbook)
       /\ response' = Resp("set_default", pk, "ok")
       /\ UNCHANGED <<Business, Member, Category, Party, PaymentMode, Transaction, req>>

\* rows of a business currently marked default
Defaults(business) == {c \in Cashbook : c.business = business /\ c.is_default}

(* ------------------- specification: the cashbook API ------------------- *)
NoRequests == [r \in 1..MaxRequests |-> [pc |-> "idle", obj |-> {}, before |-> {}]]

Init ==
    /\ Business = {}
    /\ Cashbook = {}
    /\ Member = {}
    /\ Category = {}
    /\ Party = {}
    /\ PaymentMode = {}
    /\ Transaction = {}
    /\ response = Resp("none", NoId, "none")
    /\ req = NoRequests

Next ==
    \/ \E user \in Users : BusinessCreate(user)
    \/ \E user \in Users, data \in CashbookPayloads : CashbookCreate(user, data)
    \/ \E user \in Users, pk \in CashbookIds, data \in CashbookPayloads : CashbookUpdate(user, pk, data)
    \/ \E user \in Users, pk \in CashbookIds : CashbookDestroy(user, pk)
    \/ \E user \in Users, pk \in CashbookIds : SetDefault(user, pk)

Spec == Init /\ [][Next]_vars


\* C1: after a set-default call that was served alone, the cashbook it named is
\* the one and only cashbook of its business with is_default = true.
SetDefaultLeavesTargetOnlyDefault ==
    (response.op = "set_default" /\ response.status = "ok") =>
        /\ response.pk \in Ids(Cashbook)
        /\ Defaults(Row(Cashbook, response.pk).business) = {Row(Cashbook, response.pk)}

\* C1 witness: set-default has just been served on B while a sibling A of the
\* same business exists, and A is not default.
SetDefaultWithSiblingServed ==
    /\ response.op = "set_default"
    /\ response.status = "ok"
    /\ \E a, b \in Cashbook :
         /\ b.id = response.pk
         /\ a.id # b.id
         /\ a.business = b.business
         /\ ~a.is_default
         /\ b.is_default

\* C2: in every reachable state at most one cashbook per business is default.
AtMostOneDefaultPerBusiness ==
    \A business \in BusinessIds : Cardinality(Defaults(business)) <= 1

(* --------------- set_default, one ORM statement at a time --------------- *)
\* views.py:62 cashbook = self.get_object()
SetDefaultGetObject(r, user, pk) ==
    /\ req[r].pc \in {"idle", "done", "failed"}
    /\ \/ /\ pk \notin Ids(CashbookQueryset(user))
          /\ response' = Resp("set_default", pk, "NotFound")
          /\ UNCHANGED <<store, req>>
       \/ /\ pk \in Ids(CashbookQueryset(user))
          /\ LET cashbook == Row(Cashbook, pk)
             IN req' = [req EXCEPT ![r] = [pc |-> "got", obj |-> {cashbook},
                                          before |-> Ids(Defaults(cashbook.business))]]
          /\ UNCHANGED <<store, response>>

\* views.py:64 the UPDATE commits on its own
SetDefaultUpdate(r) ==
    /\ req[r].pc = "got"
    /\ \E cashbook \in req[r].obj : Cashbook' = ClearDefault(Cashbook, cashbook.business)
    /\ req' = [req EXCEPT ![r].pc = "cleared"]
    /\ UNCHANGED <<Business, Member, Category, Party, PaymentMode, Transaction, response>>

\* views.py:65-67 the in-memory row, read at get_object, is written back whole
SetDefaultSave(r) ==
    /\ req[r].pc = "cleared"
    /\ \E cashbook \in req[r].obj :
         /\ Cashbook' = SaveDefault(Cashbook, cashbook)
         /\ response' = Resp("set_default", cashbook.id, "ok")
    /\ req' = [req EXCEPT ![r].pc = "done"]
    /\ UNCHANGED <<Business, Member, Category, Party, PaymentMode, Transaction>>

\* views.py:66 cashbook.save() raises (the database refuses the write): the
\* request ends in a server error and nothing undoes the UPDATE of line 64
SetDefaultSaveFails(r) ==
    /\ req[r].pc = "cleared"
    /\ \E cashbook \in req[r].obj : response' = Resp("set_default", cashbook.id, "ServerError")
    /\ req' = [req EXCEPT ![r].pc = "failed"]
    /\ UNCHANGED store

\* one business of u1 holding every cashbook, flags as create/update can leave them
InitSetDefault ==
    /\ Business = {[id |-> 1, owner |-> "u1"]}
    /\ \E flags \in [CashbookIds -> BOOLEAN] :
         Cashbook = {[id |-> c, business |-> 1, is_default |-> flags[c]] : c \in CashbookIds}
    /\ Member = {}
    /\ Category = {}
    /\ Party = {}
    /\ PaymentMode = {}
    /\ Transaction = {}
    /\ response = Resp("none", NoId, "none")
    /\ req = NoRequests

NextSetDefault ==
    \/ \E r \in 1..MaxRequests, user \in Users, pk \in CashbookIds : SetDefaultGetObject(r, user, pk)
    \/ \E r \in 1..MaxRequests : SetDefaultUpdate(r)
    \/ \E r \in 1..MaxRequests : SetDefaultSave(r)
    \/ \E r \in 1..MaxRequests : SetDefaultSaveFails(r)

SpecSetDefault == InitSetDefault /\ [][NextSetDefault]_vars

\* the request in slot r is the only one that ever started
Alone(r) == \A q \in 1..MaxRequests : q # r => req[q].pc = "idle"

\* C3: once two concurrent set-default requests on different cashbooks of one
\* business have both completed, exactly one cashbook of the business is default.
ConcurrentSetDefaultLeavesOneDefault ==
    \A r, q \in 1..MaxRequests :
        (/\ r # q
         /\ req[r].pc = "done"
         /\ req[q].pc = "done"
         /\ \A o \in 1..MaxRequests : req[o].pc \in {"idle", "done"}
         /\ req[r].obj # req[q].obj)
        => \A a \in req[r].obj : Cardinality(Defaults(a.business)) = 1

\* C4: while set-default on B runs in a business whose default is A, every state
\* a reader can see has exactly one of A and B default.
SetDefaultSwitchIsAtomic ==
    \A r \in 1..MaxRequests :
        (req[r].pc \in {"got", "cleared"} /\ Alone(r)) =>
            \A b \in req[r].obj : \A a \in req[r].before :
                (req[r].before = {a} /\ a # b.id) =>
                    Row(Cashbook, a).is_default # Row(Cashbook, b.id).is_default

\* C5: a set-default request that fails between clearing the flags and saving
\* the target leaves the business with the defaults it had before the request.
FailedSetDefaultRolledBack ==
    \A r \in 1..MaxRequests :
        (req[r].pc = "failed" /\ Alone(r)) =>
            \A b \in req[r].obj : Ids(Defaults(b.business)) = req[r].before


(* ------------------------------ MemberViewSet -------------------------- *)
\* get_queryset: members of the businesses the caller owns
MemberQueryset(user) == {m \in Member : IsOwner(user, m.business)}

\* MemberSerializer: fields = '__all__', user, business and role all writable
\* (a client may also send a role that is no choice, such as "OWNER")
MemberPayloads ==
    [user : Opt(Users), business : Opt(BusinessIds), role : Opt(ROLE_CHOICES \cup {"OWNER"})]

\* existing business, role among the choices, Meta.unique_together = ('user', 'business')
MemberValid(data, pk, user, business) ==
    /\ data.business \subseteq Ids(Business)
    /\ data.role \subseteq ROLE_CHOICES
    /\ ~\E m \in Member : m.id # pk /\ m.user = user /\ m.business = business

\* CreateModelMixin with no perform_create: whoever is authenticated may create
MemberCreate(user, data) ==
    \/ /\ \/ data.user = {}
          \/ data.business = {}
          \/ ~MemberValid(data, NoId, Given(data.user, user), Given(data.business, NoId))
       /\ response' = Resp("member_create", NoId, "ValidationError")
       /\ UNCHANGED <<store, req>>
    \/ /\ data.user # {}
       /\ data.business # {}
       /\ MemberValid(data, NoId, Given(data.user, user), Given(data.business, NoId))
       /\ Cardinality(Member) < MaxMembers
       /\ Member' = Member \cup {[id |-> FreshId(Member, MemberIds),
                                  user |-> Given(data.user, user),
                                  business |-> Given(data.business, NoId),
                                  role |-> Given(data.role, "VIEWER")]}
       /\ response' = Resp("member_create", FreshId(Member, MemberIds), "created")
       /\ UNCHANGED <<Business, Cashbook, Category, Party, PaymentMode, Transaction, req>>

\* UpdateModelMixin (PATCH) over get_queryset
MemberUpdate(user, pk, data) ==
    \/ /\ pk \notin Ids(MemberQueryset(user))
       /\ response' = Resp("member_update", pk, "NotFound")
       /\ UNCHANGED <<store, req>>
    \/ /\ pk \in Ids(MemberQueryset(user))
       /\ LET member == Row(Member, pk)
          IN ~MemberValid(data, pk, Given(data.user, member.user), Given(data.business, member.business))
       /\ response' = Resp("member_update", pk, "ValidationError")
       /\ UNCHANGED <<store, req>>
    \/ /\ pk \in Ids(MemberQueryset(user))
       /\ LET member == Row(Member, pk)
          IN /\ MemberValid(data, pk, Given(data.user, member.user), Given(data.business, member.business))
             /\ Member' = Save(Member, [id |-> pk,
                                        user |-> Given(data.user, member.user),
                                        business |-> Given(data.business, member.business),
                                        role |-> Given(data.role, member.role)])
       /\ response' = Resp("member_update", pk, "ok")
       /\ UNCHANGED <<Business, Cashbook, Category, Party, PaymentMode, Transaction, req>>

\* DestroyModelMixin over get_queryset
MemberDestroy(user, pk) ==
    \/ /\ pk \notin Ids(MemberQueryset(user))
       /\ response' = Resp("member_destroy", pk, "NotFound")
       /\ UNCHANGED <<store, req>>
    \/ /\ pk \in Ids(MemberQueryset(user))
       /\ Member' = {m \in Member : m.id # pk}
       /\ response' = Resp("member_destroy", pk, "deleted")
       /\ UNCHANGED <<Business, Cashbook, Category, Party, PaymentMode, Transaction, req>>

(* ---------------------------- permission checks ------------------------ *)
\* `raise permissions.PermissionDenied(...)`: the name is looked up in
\* rest_framework.permissions (views.py:1), which holds the permission classes;
\* the exception class PermissionDenied is defined in rest_framework.exceptions.
\* Where the module has no such attribute the lookup itself raises
\* AttributeError and the request ends as an unhandled server error. The
\* library is not part of src/, so both endings are kept; neither saves.
RaisePermissionDenied == {"PermissionDenied", "AttributeError"}

\* perform_create / perform_update of TransactionViewSet: no relation, or a
\* Member row whose role is VIEWER (checked whether or not the user is owner)
WriteDenied(user, business) ==
    \/ ~IsOwner(user, business) /\ Membership(user, business) = {}
    \/ \E member \in Membership(user, business) : member.role = "VIEWER"

\* perform_destroy: no relation, or a Member row whose role is not ADMIN
DeleteDenied(user, business) ==
    \/ ~IsOwner(user, business) /\ Membership(user, business) = {}
    \/ \E member \in Membership(user, business) : member.role # "ADMIN"

(* --------------------------- TransactionViewSet ------------------------ *)
\* transaction.cashbook.business
CashbookBusiness(cashbook) == Row(Cashbook, cashbook).business

\* get_queryset without query parameters
TransactionQueryset(user) ==
    {t \in Transaction : HasAccess(user, CashbookBusiness(t.cashbook))}

TransactionPayloads ==
    [cashbook : Opt(CashbookIds), type : Opt(TYPE_CHOICES), amount : Opt(Amounts),
     category : Opt(CategoryIds), party : Opt(PartyIds), payment_mode : Opt(PaymentModeIds)]

\* the validation without validate_amount
TransactionValidAnyAmount(data, partial) ==
    /\ partial \/ (data.cashbook # {} /\ data.type # {})
    /\ data.cashbook \subseteq Ids(Cashbook)
    /\ data.category \subseteq Ids(Category)
    /\ data.party \subseteq Ids(Party)
    /\ data.payment_mode \subseteq Ids(PaymentMode)
    /\ data.category # {}
    /\ data.payment_mode # {}
    /\ data.amount # {}

\* field validation (required keys unless partial, keys to existing rows of any
\* business), validate_amount, validate
TransactionValid(data, partial) ==
    /\ partial \/ (data.cashbook # {} /\ data.type # {})
    /\ data.cashbook \subseteq Ids(Cashbook)
    /\ data.category \subseteq Ids(Category)
    /\ data.party \subseteq Ids(Party)
    /\ data.payment_mode \subseteq Ids(PaymentMode)
    /\ \A amount \in data.amount : amount > 0
    /\ data.category # {}
    /\ data.payment_mode # {}
    /\ data.amount # {}

TransactionCreate(user, data) ==
    \/ /\ ~TransactionValid(data, FALSE)
       /\ response' = Resp("transaction_create", NoId, "ValidationError")
       /\ UNCHANGED <<store, req>>
    \/ /\ TransactionValid(data, FALSE)
       /\ WriteDenied(user, CashbookBusiness(Given(data.cashbook, NoId)))
       /\ \E status \in RaisePermissionDenied :
            response' = Resp("transaction_create", NoId, status)
       /\ UNCHANGED <<store, req>>
    \/ /\ TransactionValid(data, FALSE)
       /\ ~WriteDenied(user, CashbookBusiness(Given(data.cashbook, NoId)))
       /\ Cardinality(Transaction) < MaxTransactions
       /\ Transaction' = Transaction \cup
            {[id |-> FreshId(Transaction, TransactionIds),
              cashbook |-> Given(data.cashbook, NoId),
              type |-> Given(data.type, "IN"),
              amount |-> Given(data.amount, 0),
              category |-> Given(data.category, NoId),
              party |-> Given(data.party, NoId),
              payment_mode |-> Given(data.payment_mode, NoId),
              created_by |-> user]}
       /\ response' = Resp("transaction_create", FreshId(Transaction, TransactionIds), "created")
       /\ UNCHANGED <<Business, Cashbook, Member, Category, Party, PaymentMode, req>>

\* update: get_object, validation, perform_update (checks the stored cashbook)
TransactionUpdate(user, pk, data) ==
    \/ /\ pk \notin Ids(TransactionQueryset(user))
       /\ response' = Resp("transaction_update", pk, "NotFound")
       /\ UNCHANGED <<store, req>>
    \/ /\ pk \in Ids(TransactionQueryset(user))
       /\ ~TransactionValid(data, TRUE)
       /\ response' = Resp("transaction_update", pk, "ValidationError")
       /\ UNCHANGED <<store, req>>
    \/ /\ pk \in Ids(TransactionQueryset(user))
       /\ TransactionValid(data, TRUE)
       /\ WriteDenied(user, CashbookBusiness(Row(Transaction, pk).cashbook))
       /\ \E status \in RaisePermissionDenied :
            response' = Resp("transaction_update", pk, status)
       /\ UNCHANGED <<store, req>>
    \/ /\ pk \in Ids(TransactionQueryset(user))
       /\ TransactionValid(data, TRUE)
       /\ ~WriteDenied(user, CashbookBusiness(Row(Transaction, pk).cashbook))
       /\ LET transaction == Row(Transaction, pk)
          IN Transaction' = Save(Transaction,
                 [id |-> pk,
                  cashbook |-> Given(data.cashbook, transaction.cashbook),
                  type |-> Given(data.type, transaction.type),
                  amount |-> Given(data.amount, transaction.amount),
                  category |-> Given(data.category, transaction.category),
                  party |-> Given(data.party, transaction.party),
                  payment_mode |-> Given(data.payment_mode, transaction.payment_mode),
                  created_by |-> transaction.created_by])
       /\ response' = Resp("transaction_update", pk, "ok")
       /\ UNCHANGED <<Business, Cashbook, Member, Category, Party, PaymentMode, req>>

\* destroy: get_object, perform_destroy
TransactionDestroy(user, pk) ==
    \/ /\ pk \notin Ids(TransactionQueryset(user))
       /\ response' = Resp("transaction_destroy", pk, "NotFound")
       /\ UNCHANGED <<store, req>>
    \/ /\ pk \in Ids(TransactionQueryset(user))
       /\ DeleteDenied(user, CashbookBusiness(Row(Transaction, pk).cashbook))
       /\ \E status \in RaisePermissionDenied :
            response' = Resp("transaction_destroy", pk, status)
       /\ UNCHANGED <<store, req>>
    \/ /\ pk \in Ids(TransactionQueryset(user))
       /\ ~DeleteDenied(user, CashbookBusiness(Row(Transaction, pk).cashbook))
       /\ Transaction' = {t \in Transaction : t.id # pk}
       /\ response' = Resp("transaction_destroy", pk, "deleted")
       /\ UNCHANGED <<Business, Cashbook, Member, Category, Party, PaymentMode, req>>

(* ------------- specification: members and transactions ----------------- *)
\* every user owns one business with one cashbook; business 1 has a category
\* and a payment mode
InitTransaction ==
    /\ Business = {[id |-> 1, owner |-> "u1"], [id |-> 2, owner |-> "u2"]}
    /\ Cashbook = {[id |-> 1, business |-> 1, is_default |-> FALSE],
                   [id |-> 2, business |-> 2, is_default |-> FALSE]}
    /\ Member = {}
    /\ Category = {[id |-> 1, business |-> 1, name |-> "n1"]}
    /\ Party = {}
    /\ PaymentMode = {[id |-> 1, business |-> 1, name |-> "n1"]}
    /\ Transaction = {}
    /\ response = Resp("none", NoId, "none")
    /\ req = NoRequests

NextTransaction ==
    \/ \E user \in Users, data \in MemberPayloads : MemberCreate(user, data)
    \/ \E user \in Users, pk \in MemberIds, data \in MemberPayloads : MemberUpdate(user, pk, data)
    \/ \E user \in Users, pk \in MemberIds : MemberDestroy(user, pk)
    \/ \E user \in Users, data \in TransactionPayloads : TransactionCreate(user, data)
    \/ \E user \in Users, pk \in TransactionIds, data \in TransactionPayloads : TransactionUpdate(user, pk, data)
    \/ \E user \in Users, pk \in TransactionIds : TransactionDestroy(user, pk)

SpecTransaction == InitTransaction /\ [][NextTransaction]_vars


(* ------------ CategoryViewSet, PartyViewSet, PaymentModeViewSet -------- *)
\* The three viewsets are the same code over three tables of [id, business,
\* name]; the operators below give a request's outcomes [rows, pk, status].
Names == {"n1", "n2"}

RefPayloads == [business : Opt(BusinessIds), name : Opt(Names)]

\* CategorySerializer / PartySerializer / PaymentModeSerializer, fields = '__all__'
RefValid(data, partial) ==
    /\ partial \/ (data.business # {} /\ data.name # {})
    /\ data.business \subseteq Ids(Business)

\* get_queryset
RefQueryset(table, user) == {x \in table : HasAccess(user, x.business)}

\* perform_create: neither owner nor member, or a member whose role is VIEWER
RefCreateDenied(user, business) ==
    \/ ~IsOwner(user, business) /\ Membership(user, business) = {}
    \/ \E member \in Membership(user, business) : member.role = "VIEWER"

Outcome(rows, pk, status) == [rows |-> rows, pk |-> pk, status |-> status]

\* create: validation, perform_create
RefCreated(table, ids, user, data) ==
    IF ~RefValid(data, FALSE)
    THEN {Outcome(table, NoId, "ValidationError")}
    ELSE IF RefCreateDenied(user, Given(data.business, NoId))
    THEN {Outcome(table, NoId, status) : status \in RaisePermissionDenied}
    ELSE IF Cardinality(table) >= Cardinality(ids)
    THEN {}
    ELSE {Outcome(table \cup {[id |-> FreshId(table, ids),
                               business |-> Given(data.business, NoId),
                               name |-> Given(data.name, "n1")]},
                  FreshId(table, ids), "created")}

\* update (PATCH): get_object (queryset.get() over the joined rows), validation,
\* serializer.save(); the viewsets define no perform_update
RefUpdated(table, user, pk, data) ==
    IF pk \notin Ids(RefQueryset(table, user))
    THEN {Outcome(table, pk, "NotFound")}
    ELSE IF JoinedRows(user, Row(table, pk).business) > 1
    THEN {Outcome(table, pk, "MultipleObjectsReturned")}
    ELSE IF ~RefValid(data, TRUE)
    THEN {Outcome(table, pk, "ValidationError")}
    ELSE {Outcome(Save(table, [id |-> pk,
                               business |-> Given(data.business, Row(table, pk).business),
                               name |-> Given(data.name, Row(table, pk).name)]),
                  pk, "ok")}

\* destroy: get_object, instance.delete(); the viewsets define no perform_destroy
RefDestroyed(table, user, pk) ==
    IF pk \notin Ids(RefQueryset(table, user))
    THEN {Outcome(table, pk, "NotFound")}
    ELSE IF JoinedRows(user, Row(table, pk).business) > 1
    THEN {Outcome(table, pk, "MultipleObjectsReturned")}
    ELSE {Outcome({x \in table : x.id # pk}, pk, "deleted")}

CategoryCreate(user, data) ==
    /\ \E o \in RefCreated(Category, CategoryIds, user, data) :
         /\ Category' = o.rows
         /\ response' = Resp("category_create", o.pk, o.status)
    /\ UNCHANGED <<Business, Cashbook, Member, Party, PaymentMode, Transaction, req>>

CategoryUpdate(user, pk, data) ==
    /\ \E o \in RefUpdated(Category, user, pk, data) :
         /\ Category' = o.rows
         /\ response' = Resp("category_update", o.pk, o.status)
    /\ UNCHANGED <<Business, Cashbook, Member, Party, PaymentMode, Transaction, req>>

\* Transaction.category is on_delete=SET_NULL
CategoryDestroy(user, pk) ==
    /\ \E o \in RefDestroyed(Category, user, pk) :
         /\ Category' = o.rows
         /\ response' = Resp("category_destroy", o.pk, o.status)
         /\ Transaction' = {IF o.status = "deleted" /\ t.category = pk
                            THEN [t EXCEPT !.category = NoId] ELSE t : t \in Transaction}
    /\ UNCHANGED <<Business, Cashbook, Member, Party, PaymentMode, req>>

PartyCreate(user, data) ==
    /\ \E o \in RefCreated(Party, PartyIds, user, data) :
         /\ Party' = o.rows
         /\ response' = Resp("party_create", o.pk, o.status)
    /\ UNCHANGED <<Business, Cashbook, Member, Category, PaymentMode, Transaction, req>>

PartyUpdate(user, pk, data) ==
    /\ \E o \in RefUpdated(Party, user, pk, data) :
         /\ Party' = o.rows
         /\ response' = Resp("party_update", o.pk, o.status)
    /\ UNCHANGED <<Business, Cashbook, Member, Category, PaymentMode, Transaction, req>>

\* Transaction.party is on_delete=SET_NULL
PartyDestroy(user, pk) ==
    /\ \E o \in RefDestroyed(Party, user, pk) :
         /\ Party' = o.rows
         /\ response' = Resp("party_destroy", o.pk, o.status)
         /\ Transaction' = {IF o.status = "deleted" /\ t.party = pk
                            THEN [t EXCEPT !.party = NoId] ELSE t : t \in Transaction}
    /\ UNCHANGED <<Business, Cashbook, Member, Category, PaymentMode, req>>

PaymentModeCreate(user, data) ==
    /\ \E o \in RefCreated(PaymentMode, PaymentModeIds, user, data) :
         /\ PaymentMode' = o.rows
         /\ response' = Resp("payment_mode_create", o.pk, o.status)
    /\ UNCHANGED <<Business, Cashbook, Member, Category, Party, Transaction, req>>

PaymentModeUpdate(user, pk, data) ==
    /\ \E o \in RefUpdated(PaymentMode, user, pk, data) :
         /\ PaymentMode' = o.rows
         /\ response' = Resp("payment_mode_update", o.pk, o.status)
    /\ UNCHANGED <<Business, Cashbook, Member, Category, Party, Transaction, req>>

\* Transaction.payment_mode is on_delete=SET_NULL
PaymentModeDestroy(user, pk) ==
    /\ \E o \in RefDestroyed(PaymentMode, user, pk) :
         /\ PaymentMode' = o.rows
         /\ response' = Resp("payment_mode_destroy", o.pk, o.status)
         /\ Transaction' = {IF o.status = "deleted" /\ t.payment_mode = pk
                            THEN [t EXCEPT !.payment_mode = NoId] ELSE t : t \in Transaction}
    /\ UNCHANGED <<Business, Cashbook, Member, Category, Party, req>>

(* ------ specification: categories, parties and payment modes ----------- *)
\* every user owns one business; u2 has no Member row in business 1 or has one
\* with any role
InitReference ==
    /\ Business = {[id |-> 1, owner |-> "u1"], [id |-> 2, owner |-> "u2"]}
    /\ Cashbook = {[id |-> 1, business |-> 1, is_default |-> FALSE],
                   [id |-> 2, business |-> 2, is_default |-> FALSE]}
    /\ \/ Member = {}
       \/ \E role \in ROLE_CHOICES :
            Member = {[id |-> 1, user |-> "u2", business |-> 1, role |-> role]}
    /\ Category = {}
    /\ Party = {}
    /\ PaymentMode = {}
    /\ Transaction = {}
    /\ response = Resp("none", NoId, "none")
    /\ req = NoRequests

NextReference ==
    \/ \E user \in Users, data \in RefPayloads : CategoryCreate(user, data)
    \/ \E user \in Users, pk \in CategoryIds, data \in RefPayloads : CategoryUpdate(user, pk, data)
    \/ \E user \in Users, pk \in CategoryIds : CategoryDestroy(user, pk)
    \/ \E user \in Users, data \in RefPayloads : PartyCreate(user, data)
    \/ \E user \in Users, pk \in PartyIds, data \in RefPayloads : PartyUpdate(user, pk, data)
    \/ \E user \in Users, pk \in PartyIds : PartyDestroy(user, pk)
    \/ \E user \in Users, data \in RefPayloads : PaymentModeCreate(user, data)
    \/ \E user \in Users, pk \in PaymentModeIds, data \in RefPayloads : PaymentModeUpdate(user, pk, data)
    \/ \E user \in Users, pk \in PaymentModeIds : PaymentModeDestroy(user, pk)

SpecReference == InitReference /\ [][NextReference]_vars


(* ------------------------- role-gating claims -------------------------- *)
\* the user's only relation to the business is a Member row with this role
OnlyRole(user, business, role) ==
    /\ ~IsOwner(user, business)
    /\ \E member \in Membership(user, business) : member.role = role

\* C6: a valid Transaction create or update by a user who is only a VIEWER of
\* the cashbook's business ends in PermissionDenied and leaves the stored
\* transactions as they were.
ViewerTransactionWriteDenied ==
    [][\A user \in Users, data \in TransactionPayloads :
         /\ (/\ TransactionValid(data, FALSE)
             /\ OnlyRole(user, CashbookBusiness(Given(data.cashbook, NoId)), "VIEWER")
             /\ TransactionCreate(user, data))
            => (response'.status = "PermissionDenied" /\ Transaction' = Transaction)
         /\ \A pk \in Ids(Transaction) :
              (/\ TransactionValid(data, TRUE)
               /\ OnlyRole(user, CashbookBusiness(Row(Transaction, pk).cashbook), "VIEWER")
               /\ TransactionUpdate(user, pk, data))
              => (response'.status = "PermissionDenied" /\ Transaction' = Transaction)
      ]_vars

\* a request of this user on a Category, Party or PaymentMode
ReferenceRequest(user) ==
    \/ \E data \in RefPayloads :
         CategoryCreate(user, data) \/ PartyCreate(user, data) \/ PaymentModeCreate(user, data)
    \/ \E data \in RefPayloads :
         \/ \E pk \in CategoryIds : CategoryUpdate(user, pk, data)
         \/ \E pk \in PartyIds : PartyUpdate(user, pk, data)
         \/ \E pk \in PaymentModeIds : PaymentModeUpdate(user, pk, data)
    \/ \E pk \in CategoryIds : CategoryDestroy(user, pk)
    \/ \E pk \in PartyIds : PartyDestroy(user, pk)
    \/ \E pk \in PaymentModeIds : PaymentModeDestroy(user, pk)

\* the rows of a table that belong to a business
Of(table, business) == {x \in table : x.business = business}

\* C7: no create into, and no update of, a Category, Party or PaymentMode of a
\* business by one of its VIEWERs is served, and no request of a VIEWER changes
\* the business's Categories, Parties or PaymentModes.
ViewerReferenceWriteDenied ==
    [][\A user \in Users, business \in BusinessIds :
         OnlyRole(user, business, "VIEWER") =>
           /\ \A data \in RefPayloads :
                (/\ data.business = {business}
                 /\ \/ CategoryCreate(user, data)
                    \/ PartyCreate(user, data)
                    \/ PaymentModeCreate(user, data))
                => response'.status # "created"
           /\ \A data \in RefPayloads :
                (\/ \E x \in Of(Category, business) : CategoryUpdate(user, x.id, data)
                 \/ \E x \in Of(Party, business) : PartyUpdate(user, x.id, data)
                 \/ \E x \in Of(PaymentMode, business) : PaymentModeUpdate(user, x.id, data))
                => response'.status # "ok"
           /\ ReferenceRequest(user) =>
                /\ Of(Category', business) = Of(Category, business)
                /\ Of(Party', business) = Of(Party, business)
                /\ Of(PaymentMode', business) = Of(PaymentMode, business)
      ]_vars

\* C8: a Transaction delete is served only for the owner or an ADMIN member; an
\* EDITOR's valid create and update are served; a delete by an EDITOR or VIEWER
\* ends in PermissionDenied and the transaction stays stored.
TransactionDeleteOnlyOwnerOrAdmin ==
    [][\A user \in Users :
         /\ response'.op = "transaction_destroy" =>
              \A pk \in Ids(Transaction) :
                LET business == CashbookBusiness(Row(Transaction, pk).cashbook)
                IN TransactionDestroy(user, pk) =>
                     /\ response'.status = "deleted" =>
                          (IsOwner(user, business) \/ OnlyRole(user, business, "ADMIN"))
                     /\ (OnlyRole(user, business, "EDITOR") \/ OnlyRole(user, business, "VIEWER")) =>
                          (response'.status = "PermissionDenied" /\ Transaction' = Transaction)
         /\ response'.op = "transaction_create" =>
              \A data \in TransactionPayloads :
                (/\ TransactionValid(data, FALSE)
                 /\ OnlyRole(user, CashbookBusiness(Given(data.cashbook, NoId)), "EDITOR")
                 /\ TransactionCreate(user, data))
                => response'.status = "created"
         /\ response'.op = "transaction_update" =>
              \A data \in TransactionPayloads, pk \in Ids(Transaction) :
                (/\ TransactionValid(data, TRUE)
                 /\ OnlyRole(user, CashbookBusiness(Row(Transaction, pk).cashbook), "EDITOR")
                 /\ TransactionUpdate(user, pk, data))
                => response'.status = "ok"
      ]_vars

\* C9: every valid Transaction create and update, and every delete, by the
\* owner of the cashbook's business is served, whatever Member rows exist.
OwnerAlwaysPermitted ==
    [][\A user \in Users :
         /\ \A pk \in Ids(Transaction) :
              (/\ IsOwner(user, CashbookBusiness(Row(Transaction, pk).cashbook))
               /\ TransactionDestroy(user, pk))
              => response'.status = "deleted"
         /\ \A data \in TransactionPayloads :
              /\ (/\ TransactionValid(data, FALSE)
                  /\ IsOwner(user, CashbookBusiness(Given(data.cashbook, NoId)))
                  /\ TransactionCreate(user, data))
                 => response'.status = "created"
              /\ \A pk \in Ids(Transaction) :
                   (/\ TransactionValid(data, TRUE)
                    /\ IsOwner(user, CashbookBusiness(Row(Transaction, pk).cashbook))
                    /\ TransactionUpdate(user, pk, data))
                   => response'.status = "ok"
      ]_vars

\* a request of this user on a Member
MemberRequest(user) ==
    \/ \E data \in MemberPayloads : MemberCreate(user, data)
    \/ \E pk \in MemberIds, data \in MemberPayloads : MemberUpdate(user, pk, data)
    \/ \E pk \in MemberIds : MemberDestroy(user, pk)

\* C10: a Member request of a user leaves the Member rows of every business
\* that user does not own as they were.
MemberWritesOnlyByOwner ==
    [][\A user \in Users :
         MemberRequest(user) =>
           \A business \in BusinessIds :
             ~IsOwner(user, business) => Of(Member', business) = Of(Member, business)
      ]_vars


(* --------------------------- clock and calendar ------------------------ *)
MaxDay == 31

MaxPerDay == 2

MaxFilters == 2

MaxLedger == 2

MaxStoredMembers == 2

\* days are counted from the first day of a 31-day month followed by another
\* (1 July); the model keeps the days that tell the duration windows apart
Days == {0, MaxDay - 8, MaxDay - 1, MaxDay}

\* created_at (DateTimeField(auto_now_add=True)): MaxPerDay instants a day
Instants == {d * MaxPerDay + i : d \in Days, i \in 0..(MaxPerDay - 1)}

\* transaction_date (DateField(auto_now_add=True)): the day of the insert
DateOf(created_at) == created_at \div MaxPerDay

\* (date.year, date.month)
MonthOf(day) == day \div 31

\* Transaction.remark and the search terms: words over letters, which the text
\* of no amount contains
Texts == {<<>>, <<"a">>, <<"b">>}

\* field__icontains=term
IContains(text, term) ==
    \E i \in 0..(Len(text) - Len(term)) : SubSeq(text, i + 1, i + Len(term)) = term

(* ------------------------------ read requests -------------------------- *)
\* a response to a read: who asked, how it ended, what it carried
Read(op, user, pk, status, data) ==
    [op |-> op, pk |-> pk, status |-> status, user |-> user, data |-> data]

\* a text that is no UUID, written as a number no primary key has
NotAUuid == 0 - 1

DURATIONS == {"TODAY", "LAST_7_DAYS", "LAST_30_DAYS", "THIS_MONTH", "ALL_TIME"}

\* the names of the query parameters the read handlers look at
ParamNames == {"cashbook", "duration", "start_date", "end_date", "type", "category",
               "party", "payment_mode", "member", "created_by", "search"}

\* a parameter of a request that gives the parameters in `given`: one value if
\* it is among them, absent ({}) if not
Param(name, given, values) == IF name \in given THEN {{v} : v \in values} ELSE {{}}

\* request.query_params: at most MaxFilters parameters in one request
QueryParams ==
    UNION {[cashbook : Param("cashbook", given, CashbookIds),
            duration : Param("duration", given, DURATIONS),
            start_date : Param("start_date", given, Days),
            end_date : Param("end_date", given, Days),
            type : Param("type", given, TYPE_CHOICES),
            category : Param("category", given, CategoryIds),
            party : Param("party", given, PartyIds),
            payment_mode : Param("payment_mode", given, PaymentModeIds),
            member : Param("member", given, MemberIds \cup {NotAUuid}),
            created_by : Param("created_by", given, Users),
            search : Param("search", given, Texts \ {<<>>})] :
           given \in {names \in SUBSET ParamNames : Cardinality(names) <= MaxFilters}}

\* a request with no query parameter
NoParams == CHOOSE p \in QueryParams : \A name \in DOMAIN p : p[name] = {}

\* queryset.filter(field=value) when the parameter is given
Exact(given, value) == given = {} \/ given = {value}

\* the duration shorthand of get_queryset and SummaryView.get
DurationAll(transaction_date, duration, today) == TRUE

Duration(transaction_date, duration, today) ==
    CASE duration = {"TODAY"} -> transaction_date = today
      [] duration = {"LAST_7_DAYS"} -> transaction_date >= today - 7
      [] duration = {"LAST_30_DAYS"} -> transaction_date >= today - 30
      [] duration = {"THIS_MONTH"} -> MonthOf(transaction_date) = MonthOf(today)
      [] OTHER -> TRUE

\* Member.objects.get(id=member_id) ... filter(created_by=member_obj.user);
\* Member.DoesNotExist gives queryset.none()
MemberFilter(created_by, member) ==
    member = {} \/ \E m \in Member : member = {m.id} /\ m.user = created_by

\* Member.objects.get(id=<no UUID>) raises django.core.exceptions.ValidationError
\* out of UUIDField.to_python; the handlers catch (Member.DoesNotExist, ValueError)
MemberLookupRaises(member) == member = {NotAUuid}

\* transaction_date__gte=start_date, transaction_date__lte=end_date
DateRange(transaction_date, start_date, end_date) ==
    /\ \A d \in start_date : transaction_date >= d
    /\ \A d \in end_date : transaction_date <= d

\* TransactionViewSet.get_queryset
get_queryset(user, params, today) ==
    {t \in Transaction :
        /\ HasAccess(user, CashbookBusiness(t.cashbook))
        /\ Exact(params.cashbook, t.cashbook)
        /\ Duration(t.transaction_date, params.duration, today)
        /\ MemberFilter(t.created_by, params.member)
        /\ DateRange(t.transaction_date, params.start_date, params.end_date)}

\* filter_backends: DjangoFilterBackend over filterset_fields, SearchFilter over
\* search_fields (OrderingFilter's order is replaced by list's order_by)
filter_queryset(queryset, params) ==
    {t \in queryset :
        /\ Exact(params.cashbook, t.cashbook)
        /\ Exact(params.type, t.type)
        /\ Exact(params.category, t.category)
        /\ Exact(params.party, t.party)
        /\ Exact(params.payment_mode, t.payment_mode)
        /\ Exact(params.created_by, t.created_by)
        /\ \A term \in params.search : IContains(t.remark, term)}

(* ---------------------------- the balance scan ------------------------- *)
\* order_by('transaction_date', 'created_at')
Before(a, b) ==
    \/ a.transaction_date < b.transaction_date
    \/ a.transaction_date = b.transaction_date /\ a.created_at <= b.created_at

\* the orders the database may return the rows in: every arrangement that is
\* ascending in the two sort keys (rows equal in both come in either order)
Ordered(rows) ==
    {order \in [1..Cardinality(rows) -> rows] :
        /\ \A i, j \in DOMAIN order : i # j => order[i] # order[j]
        /\ \A i, j \in DOMAIN order : i < j => Before(order[i], order[j])}

\* running_balance after the first k rows: += amount for IN, -= amount otherwise
RECURSIVE running_balance(_, _)
running_balance(transactions_ordered, k) ==
    IF k = 0
    THEN 0
    ELSE IF transactions_ordered[k].type = "IN"
    THEN running_balance(transactions_ordered, k - 1) + transactions_ordered[k].amount
    ELSE running_balance(transactions_ordered, k - 1) - transactions_ordered[k].amount

\* total_in after the first k rows (_get_report_data)
RECURSIVE total_in(_, _)
total_in(transactions, k) ==
    IF k = 0
    THEN 0
    ELSE IF transactions[k].type = "IN"
    THEN total_in(transactions, k - 1) + transactions[k].amount
    ELSE total_in(transactions, k - 1)

\* total_out after the first k rows (_get_report_data)
RECURSIVE total_out(_, _)
total_out(transactions, k) ==
    IF k = 0
    THEN 0
    ELSE IF transactions[k].type = "IN"
    THEN total_out(transactions, k - 1)
    ELSE total_out(transactions, k - 1) + transactions[k].amount

\* the scan without the accumulator: each row with its own signed amount
transactions_with_amount(transactions_ordered) ==
    [k \in DOMAIN transactions_ordered |->
        [txn |-> transactions_ordered[k],
         running_balance |-> running_balance(transactions_ordered, k)
                             - running_balance(transactions_ordered, k - 1)]]

\* the scanned rows, each with the balance it was given
transactions_with_balance(transactions_ordered) ==
    [k \in DOMAIN transactions_ordered |->
        [txn |-> transactions_ordered[k],
         running_balance |-> running_balance(transactions_ordered, k)]]

\* the list left in scan order
NotReversed(rows) == rows

\* list.reverse()
Reversed(rows) == [k \in DOMAIN rows |-> rows[Len(rows) + 1 - k]]

\* TransactionSerializer.running_balance = DecimalField(max_digits=12,
\* decimal_places=2): to_representation quantizes under a context of 12 digits,
\* which raises decimal.InvalidOperation from 10,000,000,000.00 on. The largest
\* amount of the model, MaxAmount, stands for 5,000,000,000.00 (a valid amount:
\* Transaction.amount has max_digits=19).
Renders(balance) == -(2 * MaxAmount) < balance /\ balance < 2 * MaxAmount

\* aggregate(Sum('amount'))['amount__sum'] or 0
RECURSIVE Sum(_)
Sum(transactions) ==
    IF transactions = {}
    THEN 0
    ELSE LET t == CHOOSE t \in transactions : TRUE
         IN t.amount + Sum(transactions \ {t})

\* timezone.now().date(): no stored transaction is dated after it
Clock(today) == \A t \in Transaction : t.transaction_date <= today

(* ------------------------ TransactionViewSet reads --------------------- *)
\* list: get_queryset, filter_queryset, the scan, reverse, serialize (no
\* pagination class is set in src/)
TransactionListed(user, params, today) ==
    IF MemberLookupRaises(params.member)
    THEN {Read("transaction_list", user, NoId, "ServerError", <<>>)}
    ELSE {IF \A k \in DOMAIN transactions_ordered :
                Renders(running_balance(transactions_ordered, k))
          THEN Read("transaction_list", user, NoId, "ok",
                    Reversed(transactions_with_balance(transactions_ordered)))
          ELSE Read("transaction_list", user, NoId, "ServerError", <<>>) :
          transactions_ordered \in
              Ordered(filter_queryset(get_queryset(user, params, today), params))}

TransactionList(user, params, today) ==
    /\ Clock(today)
    /\ response' \in TransactionListed(user, params, today)
    /\ UNCHANGED <<store, req>>

\* retrieve: get_object over filter_queryset(get_queryset()); the instance has
\* no running_balance and the serializer skips the field
TransactionRetrieved(user, pk) ==
    IF pk \in Ids(TransactionQueryset(user))
    THEN Read("transaction_retrieve", user, pk, "ok", Row(Transaction, pk))
    ELSE Read("transaction_retrieve", user, pk, "NotFound", <<>>)

TransactionRetrieve(user, pk) ==
    /\ response' = TransactionRetrieved(user, pk)
    /\ UNCHANGED <<store, req>>

(* ------------------------------ SummaryView ---------------------------- *)
\* the filters SummaryView.get applies to Transaction.objects.filter(cashbook_id=...)
SummaryTransactions(cashbook_id, params, today) ==
    {t \in Transaction :
        /\ t.cashbook = cashbook_id
        /\ Duration(t.transaction_date, params.duration, today)
        /\ Exact(params.type, t.type)
        /\ Exact(params.category, t.category)
        /\ Exact(params.party, t.party)
        /\ MemberFilter(t.created_by, params.member)
        /\ Exact(params.payment_mode, t.payment_mode)
        /\ \A term \in params.search : IContains(t.remark, term)}

\* the totals of the whole table, whatever the working set
TotalsOfTable(transactions) ==
    [total_in |-> Sum({t \in Transaction : t.type = "IN"}),
     total_out |-> Sum({t \in Transaction : t.type = "OUT"}),
     net_balance |-> Sum({t \in Transaction : t.type = "IN"})
                     - Sum({t \in Transaction : t.type = "OUT"})]

\* total_in, total_out and net_balance over a working set
Totals(transactions) ==
    [total_in |-> Sum({t \in transactions : t.type = "IN"}),
     total_out |-> Sum({t \in transactions : t.type = "OUT"}),
     net_balance |-> Sum({t \in transactions : t.type = "IN"})
                     - Sum({t \in transactions : t.type = "OUT"})]

Summarized(user, params, today) ==
    IF params.cashbook = {}
    THEN Read("summary", user, NoId, "BadRequest", <<>>)
    ELSE LET cashbook_id == Given(params.cashbook, NoId)
         IN IF cashbook_id \notin Ids(CashbookQueryset(user))
            THEN Read("summary", user, cashbook_id, "NotFound", <<>>)
            ELSE IF MemberLookupRaises(params.member)
            THEN Read("summary", user, cashbook_id, "ServerError", <<>>)
            ELSE Read("summary", user, cashbook_id, "ok",
                      Totals(SummaryTransactions(cashbook_id, params, today)))

Summary(user, params, today) ==
    /\ Clock(today)
    /\ response' = Summarized(user, params, today)
    /\ UNCHANGED <<store, req>>

(* ----------------------------- ReportsViewSet -------------------------- *)
\* the pass with total_out fed by every row
report_data_gross(transactions) ==
    [transactions |-> transactions_with_balance(transactions),
     total_in |-> total_in(transactions, Len(transactions)),
     total_out |-> total_in(transactions, Len(transactions))
                   + total_out(transactions, Len(transactions)),
     net_balance |-> total_in(transactions, Len(transactions))
                     - total_out(transactions, Len(transactions))]

\* _get_report_data: one pass over the cashbook's transactions in ascending order
report_data(transactions) ==
    [transactions |-> transactions_with_balance(transactions),
     total_in |-> total_in(transactions, Len(transactions)),
     total_out |-> total_out(transactions, Len(transactions)),
     net_balance |-> total_in(transactions, Len(transactions))
                     - total_out(transactions, Len(transactions))]

\* retrieve: get_object over get_queryset, the report with its rows reversed
ReportRetrieved(user, pk) ==
    IF pk \notin Ids(CashbookQueryset(user))
    THEN {Read("report_retrieve", user, pk, "NotFound", <<>>)}
    ELSE {Read("report_retrieve", user, pk, "ok",
               [report_data(transactions) EXCEPT
                   !.transactions = Reversed(report_data(transactions).transactions)]) :
          transactions \in Ordered({t \in Transaction : t.cashbook = pk})}

ReportRetrieve(user, pk) ==
    /\ response' \in ReportRetrieved(user, pk)
    /\ UNCHANGED <<store, req>>

\* list: the totals of every cashbook the caller can see
ReportListed(user) ==
    Read("report_list", user, NoId, "ok",
         {[id |-> cashbook.id] @@ Totals({t \in Transaction : t.cashbook = cashbook.id}) :
          cashbook \in CashbookQueryset(user)})

ReportList(user) ==
    /\ response' = ReportListed(user)
    /\ UNCHANGED <<store, req>>

(* ------------- list and retrieve of the business-scoped tables --------- *)
\* CashbookViewSet list: get_queryset ends in .distinct()
CashbookListed(user) == Read("cashbook_list", user, NoId, "ok", CashbookQueryset(user))

CashbookList(user) ==
    /\ response' = CashbookListed(user)
    /\ UNCHANGED <<store, req>>

CashbookRetrieved(user, pk) ==
    IF pk \in Ids(CashbookQueryset(user))
    THEN Read("cashbook_retrieve", user, pk, "ok", Row(Cashbook, pk))
    ELSE Read("cashbook_retrieve", user, pk, "NotFound", <<>>)

CashbookRetrieve(user, pk) ==
    /\ response' = CashbookRetrieved(user, pk)
    /\ UNCHANGED <<store, req>>

\* user_role: get_object, then owner, else the caller's Member row
user_role(user, pk) ==
    IF pk \notin Ids(CashbookQueryset(user))
    THEN Read("user_role", user, pk, "NotFound", <<>>)
    ELSE IF IsOwner(user, Row(Cashbook, pk).business)
    THEN Read("user_role", user, pk, "ok",
              [role |-> "owner", can_create |-> TRUE, can_edit |-> TRUE, can_delete |-> TRUE])
    ELSE IF Membership(user, Row(Cashbook, pk).business) = {}
    THEN Read("user_role", user, pk, "Forbidden", <<>>)
    ELSE LET member == CHOOSE m \in Membership(user, Row(Cashbook, pk).business) : TRUE
         IN Read("user_role", user, pk, "ok",
                 [role |-> member.role,
                  can_create |-> member.role \in {"admin", "editor"},
                  can_edit |-> member.role \in {"admin", "editor"},
                  can_delete |-> member.role = "admin"])

UserRole(user, pk) ==
    /\ response' = user_role(user, pk)
    /\ UNCHANGED <<store, req>>

\* list of CategoryViewSet / PartyViewSet / PaymentModeViewSet: get_queryset has
\* no .distinct(), every row comes as many times as the join yields it
RefListed(op, table, user) ==
    Read(op, user, NoId, "ok",
         {[row |-> x, copies |-> JoinedRows(user, x.business)] : x \in RefQueryset(table, user)})

\* retrieve: get_object is queryset.get(pk=pk) over the same joined rows
RefRetrieved(op, table, user, pk) ==
    IF pk \notin Ids(RefQueryset(table, user))
    THEN Read(op, user, pk, "NotFound", <<>>)
    ELSE IF JoinedRows(user, Row(table, pk).business) > 1
    THEN Read(op, user, pk, "MultipleObjectsReturned", <<>>)
    ELSE Read(op, user, pk, "ok", Row(table, pk))

CategoryList(user) ==
    /\ response' = RefListed("category_list", Category, user)
    /\ UNCHANGED <<store, req>>

CategoryRetrieve(user, pk) ==
    /\ response' = RefRetrieved("category_retrieve", Category, user, pk)
    /\ UNCHANGED <<store, req>>

PartyList(user) ==
    /\ response' = RefListed("party_list", Party, user)
    /\ UNCHANGED <<store, req>>

PartyRetrieve(user, pk) ==
    /\ response' = RefRetrieved("party_retrieve", Party, user, pk)
    /\ UNCHANGED <<store, req>>

PaymentModeList(user) ==
    /\ response' = RefListed("payment_mode_list", PaymentMode, user)
    /\ UNCHANGED <<store, req>>

PaymentModeRetrieve(user, pk) ==
    /\ response' = RefRetrieved("payment_mode_retrieve", PaymentMode, user, pk)
    /\ UNCHANGED <<store, req>>

(* ------------------- specification: the read endpoints ----------------- *)
\* every user owns one business with one cashbook
StoredBusiness == {[id |-> 1, owner |-> "u1"], [id |-> 2, owner |-> "u2"]}

StoredCashbook == {[id |-> 1, business |-> 1, is_default |-> FALSE],
                   [id |-> 2, business |-> 2, is_default |-> FALSE]}

\* the Member tables of up to MaxStoredMembers rows the member endpoints can
\* leave: any user in any business (the owner's own included) with any role,
\* one row per (user, business)
StoredMembers ==
    UNION {{{[id |-> i, user |-> f[i].user, business |-> f[i].business, role |-> f[i].role] :
               i \in 1..n} :
            f \in {g \in [1..n -> [user : Users, business : Ids(StoredBusiness),
                                   role : ROLE_CHOICES]] :
                     \A i, j \in 1..n :
                        i # j => <<g[i].user, g[i].business>> # <<g[j].user, g[j].business>>}} :
           n \in 0..MaxStoredMembers}

\* a stored transaction: transaction_date and created_at are set by the insert
Stored(id, cashbook, type, amount, category, party, payment_mode, created_by, created_at, remark) ==
    [id |-> id, cashbook |-> cashbook, type |-> type, amount |-> amount,
     category |-> category, party |-> party, payment_mode |-> payment_mode,
     created_by |-> created_by, created_at |-> created_at,
     transaction_date |-> DateOf(created_at), remark |-> remark]

\* no reference row, or row 1 in business 1
StoredRefs == {{}, {[id |-> 1, business |-> 1, name |-> "n1"]}}

InitRead ==
    /\ Business = StoredBusiness
    /\ Cashbook = StoredCashbook
    /\ Member \in StoredMembers
    /\ Category \in StoredRefs
    /\ Party \in StoredRefs
    /\ PaymentMode \in StoredRefs
    /\ \/ Transaction = {}
       \/ \E cashbook \in Ids(StoredCashbook), amount \in 1..MaxAmount, created_by \in Users :
            Transaction = {Stored(1, cashbook, "IN", amount, NoId, NoId, NoId,
                                  created_by, 0, <<>>)}
    /\ response = Resp("none", NoId, "none")
    /\ req = NoRequests

NextRead ==
    \/ \E user \in Users : CashbookList(user)
    \/ \E user \in Users, pk \in CashbookIds : CashbookRetrieve(user, pk)
    \/ \E user \in Users, pk \in CashbookIds : UserRole(user, pk)
    \/ \E user \in Users : CategoryList(user)
    \/ \E user \in Users, pk \in CategoryIds : CategoryRetrieve(user, pk)
    \/ \E user \in Users : PartyList(user)
    \/ \E user \in Users, pk \in PartyIds : PartyRetrieve(user, pk)
    \/ \E user \in Users : PaymentModeList(user)
    \/ \E user \in Users, pk \in PaymentModeIds : PaymentModeRetrieve(user, pk)
    \/ \E user \in Users, today \in Days : TransactionList(user, NoParams, today)
    \/ \E user \in Users, pk \in TransactionIds : TransactionRetrieve(user, pk)

SpecRead == InitRead /\ [][NextRead]_vars

\* the rows of a table in the businesses the user owns or is a member of
Accessible(table, user) == {x \in table : HasAccess(user, x.business)}

\* the transactions of the cashbooks of those businesses
AccessibleTransactions(user) ==
    {t \in Transaction : HasAccess(user, CashbookBusiness(t.cashbook))}

\* a retrieve answers an accessible row with that row and any other key with
\* NotFound
RetrieveAnswers(rows) ==
    IF response.pk \in Ids(rows)
    THEN response.status = "ok" /\ response.data = Row(rows, response.pk)
    ELSE response.status = "NotFound"

\* a list of one of the three reference tables answers with exactly the
\* accessible rows (however many copies of each)
RefListAnswers(rows) ==
    response.status = "ok" /\ {d.row : d \in response.data} = rows

\* C11: every list answers with exactly the records of the businesses the
\* caller owns or is a member of, and every retrieve answers such a record with
\* the record and any other with NotFound; no read of an accessible record
\* ends in an error.
ReadsReturnExactlyAccessible ==
    /\ response.op = "cashbook_list" =>
         response.status = "ok" /\ response.data = Accessible(Cashbook, response.user)
    /\ response.op = "cashbook_retrieve" => RetrieveAnswers(Accessible(Cashbook, response.user))
    /\ response.op = "category_list" => RefListAnswers(Accessible(Category, response.user))
    /\ response.op = "category_retrieve" => RetrieveAnswers(Accessible(Category, response.user))
    /\ response.op = "party_list" => RefListAnswers(Accessible(Party, response.user))
    /\ response.op = "party_retrieve" => RetrieveAnswers(Accessible(Party, response.user))
    /\ response.op = "payment_mode_list" => RefListAnswers(Accessible(PaymentMode, response.user))
    /\ response.op = "payment_mode_retrieve" =>
         RetrieveAnswers(Accessible(PaymentMode, response.user))
    /\ response.op = "transaction_list" =>
         /\ response.status = "ok"
         /\ {response.data[k].txn : k \in DOMAIN response.data}
              = AccessibleTransactions(response.user)
    /\ response.op = "transaction_retrieve" =>
         RetrieveAnswers(AccessibleTransactions(response.user))

(* --------------------- specification: the ledger reads ----------------- *)
\* the last instant of the day before the last, and the first two of the last
LedgerInstants ==
    {(MaxDay - 1) * MaxPerDay + (MaxPerDay - 1), MaxDay * MaxPerDay, MaxDay * MaxPerDay + 1}

\* the ledgers of n transactions, numbered in the order of their inserts
\* (created_at never decreases, and two inserts may share an instant), each in
\* one of the first two cashbooks, of either type, created by u1
RECURSIVE StoredLedgers(_)
StoredLedgers(n) ==
    IF n = 0
    THEN {{}}
    ELSE {ledger \cup {Stored(n, row.cashbook, row.type, row.amount, NoId, NoId, NoId, "u1",
                                row.created_at, <<>>)} :
          ledger \in StoredLedgers(n - 1),
          row \in [cashbook : {c \in CashbookIds : c <= 2}, type : TYPE_CHOICES,
                    amount : 1..MaxAmount, created_at : LedgerInstants]}

\* the insert order is the order of created_at
InsertOrder(ledger) == \A t, u \in ledger : t.id < u.id => t.created_at <= u.created_at

InitLedger ==
    /\ Business = StoredBusiness
    /\ Cashbook = {[id |-> c, business |-> 1, is_default |-> FALSE] : c \in CashbookIds}
    /\ Member = {}
    /\ Category = {}
    /\ Party = {}
    /\ PaymentMode = {}
    /\ \E n \in 0..MaxLedger : Transaction \in {ledger \in StoredLedgers(n) : InsertOrder(ledger)}
    /\ response = Resp("none", NoId, "none")
    /\ req = NoRequests

\* requests that name at most a cashbook
LedgerParams == {p \in QueryParams : \A name \in DOMAIN p : name # "cashbook" => p[name] = {}}

NextLedger ==
    \/ \E user \in Users, params \in LedgerParams : TransactionList(user, params, MaxDay)
    \/ \E user \in Users, pk \in CashbookIds : ReportRetrieve(user, pk)
    \/ \E user \in Users : ReportList(user)
    \/ \E user \in Users, params \in LedgerParams : Summary(user, params, MaxDay)

SpecLedger == InitLedger /\ [][NextLedger]_vars

\* the transactions among the first k rows of a scan that have this type
Scanned(rows, k, type) == {rows[i].txn : i \in {j \in 1..k : rows[j].txn.type = type}}

\* rows as they were scanned: ascending in (transaction_date, created_at), each
\* with the IN amounts minus the OUT amounts of the rows up to it
BalanceIsInMinusOut(rows) ==
    /\ \A i, j \in DOMAIN rows : i < j => Before(rows[i].txn, rows[j].txn)
    /\ \A k \in DOMAIN rows :
         rows[k].running_balance = Sum(Scanned(rows, k, "IN")) - Sum(Scanned(rows, k, "OUT"))

\* C12: in a Transaction-list response and in a report, read back in ascending
\* (transaction_date, created_at) order, the k-th row's running_balance is the
\* sum of the IN amounts minus the sum of the OUT amounts of rows 1..k.
RunningBalanceIsInMinusOut ==
    /\ (response.op = "transaction_list" /\ response.status = "ok") =>
         BalanceIsInMinusOut(Reversed(response.data))
    /\ (response.op = "report_retrieve" /\ response.status = "ok") =>
         BalanceIsInMinusOut(Reversed(response.data.transactions))

\* C12 witness: a list of two rows scanned as IN then OUT, displayed with the
\* balance after the OUT first.
ListOfInThenOutServed ==
    /\ response.op = "transaction_list"
    /\ response.status = "ok"
    /\ Len(response.data) = 2
    /\ response.data[2].txn.type = "IN"
    /\ response.data[1].txn.type = "OUT"
    /\ response.data[2].running_balance = response.data[2].txn.amount
    /\ response.data[1].running_balance = response.data[2].txn.amount - response.data[1].txn.amount

\* C13: a report over a non-empty set of transactions has total_in - total_out
\* = net_balance = the running_balance of its chronologically last row.
ReportTotalsAgreeWithLastBalance ==
    (/\ response.op = "report_retrieve"
     /\ response.status = "ok"
     /\ response.data.transactions # <<>>) =>
        /\ response.data.total_in - response.data.total_out = response.data.net_balance
        /\ response.data.net_balance = response.data.transactions[1].running_balance

\* C13 witness: a report with an IN and an OUT row.
ReportWithBothTypesServed ==
    /\ response.op = "report_retrieve"
    /\ response.status = "ok"
    /\ Len(response.data.transactions) = 2
    /\ response.data.total_in > 0
    /\ response.data.total_out > 0

\* rows as they are displayed: newest first, each with the balance of the scan
\* up to it (the rows displayed at or after it)
DisplayedNewestFirst(rows) ==
    /\ \A i, j \in DOMAIN rows : i < j => Before(rows[j].txn, rows[i].txn)
    /\ \A i \in DOMAIN rows :
         rows[i].running_balance =
             Sum({rows[j].txn : j \in {k \in i..Len(rows) : rows[k].txn.type = "IN"}})
             - Sum({rows[j].txn : j \in {k \in i..Len(rows) : rows[k].txn.type = "OUT"}})

\* C14: Transaction-list and report retrieve display the rows newest first, each
\* with the running_balance the ascending scan gave it (the first row displayed
\* holds the final balance), and the report's totals are those of the whole scan.
DisplayIsReverseOfScan ==
    /\ (response.op = "transaction_list" /\ response.status = "ok") =>
         DisplayedNewestFirst(response.data)
    /\ (response.op = "report_retrieve" /\ response.status = "ok") =>
         /\ DisplayedNewestFirst(response.data.transactions)
         /\ response.data.total_in =
              Sum({t \in Transaction : t.cashbook = response.pk /\ t.type = "IN"})
         /\ response.data.total_out =
              Sum({t \in Transaction : t.cashbook = response.pk /\ t.type = "OUT"})
         /\ response.data.net_balance = response.data.total_in - response.data.total_out

\* C14 witness: a list whose first displayed row was created after its last.
ListNewestFirstServed ==
    /\ response.op = "transaction_list"
    /\ response.status = "ok"
    /\ Len(response.data) >= 2
    /\ response.data[1].txn.created_at > response.data[Len(response.data)].txn.created_at
    /\ response.data[1].running_balance # response.data[Len(response.data)].running_balance

(* ------------------- specification: the filtered reads ------------------ *)

\* timezone.now().date() while the filtered reads are served
Today == MaxDay

\* business 1 (of u1) with cashbook 1 and one row of each reference table, u2
\* a member of it or not, and no transaction or one in cashbook 1: of either
\* type, with or without category, party and payment mode (SET_NULL), created
\* by either user on any of the Days, with or without a remark
InitFilter ==
    /\ Business = StoredBusiness
    /\ Cashbook = StoredCashbook
    /\ Member \in {{}, {[id |-> 1, user |-> "u2", business |-> 1, role |-> "EDITOR"]}}
    /\ Category = {[id |-> 1, business |-> 1, name |-> "n1"]}
    /\ Party = {[id |-> 1, business |-> 1, name |-> "n1"]}
    /\ PaymentMode = {[id |-> 1, business |-> 1, name |-> "n1"]}
    /\ \/ Transaction = {}
       \/ \E type \in TYPE_CHOICES, amount \in 1..MaxAmount, category \in {NoId, 1},
             party \in {NoId, 1}, payment_mode \in {NoId, 1}, created_by \in Users,
             day \in Days, remark \in {<<>>, <<"a">>} :
            Transaction = {Stored(1, 1, type, amount, category, party, payment_mode,
                                  created_by, day * MaxPerDay, remark)}
    /\ response = Resp("none", NoId, "none")
    /\ req = NoRequests

NextFilter ==
    \/ \E user \in Users, params \in QueryParams : TransactionList(user, params, Today)
    \/ \E user \in Users, params \in QueryParams : Summary(user, params, Today)

SpecFilter == InitFilter /\ [][NextFilter]_vars

\* the transactions of a list response
ListedTransactions(data) == {data[i].txn : i \in DOMAIN data}

\* the requests Transaction-list answers with this response
ListRequests(answer) ==
    {params \in QueryParams : answer \in TransactionListed(answer.user, params, Today)}

\* the requests Summary answers with this response
SummaryRequests(answer) ==
    {params \in QueryParams : answer = Summarized(answer.user, params, Today)}

\* C15: Summary's totals are the IN sum, the OUT sum and their difference over
\* exactly the transactions Transaction-list returns for the same caller and
\* the same parameters.
SummaryTotalsAreThoseOfTheList ==
    (response.op = "summary" /\ response.status = "ok") =>
        \A params \in SummaryRequests(response) :
            response.data =
                Totals(filter_queryset(get_queryset(response.user, params, Today), params))

\* the window a duration shorthand stands for
InDurationWindow(transaction_date, duration, today) ==
    /\ duration = {"TODAY"} => transaction_date = today
    /\ duration = {"LAST_7_DAYS"} => today - transaction_date <= 7
    /\ duration = {"LAST_30_DAYS"} => today - transaction_date <= 30
    /\ duration = {"THIS_MONTH"} => MonthOf(transaction_date) = MonthOf(today)

\* the interval [start_date, end_date], open where a bound is not given
InDateRange(transaction_date, start_date, end_date) ==
    /\ start_date = {} \/ \E d \in start_date : d <= transaction_date
    /\ end_date = {} \/ \E d \in end_date : transaction_date <= d

\* a request that gives no parameter but duration, start_date and end_date
OnlyDates(params) ==
    \A name \in DOMAIN params :
        name \notin {"duration", "start_date", "end_date"} => params[name] = {}

\* C16: Transaction-list returns a transaction only if its transaction_date lies
\* in the duration window and in [start_date, end_date]; when no other filter
\* is given it returns exactly the caller's transactions in that intersection.
DurationAndDateRangeComposeByAnd ==
    (response.op = "transaction_list" /\ response.status = "ok") =>
        \A params \in ListRequests(response) :
            /\ \A t \in ListedTransactions(response.data) :
                 /\ InDurationWindow(t.transaction_date, params.duration, Today)
                 /\ InDateRange(t.transaction_date, params.start_date, params.end_date)
            /\ OnlyDates(params) =>
                 ListedTransactions(response.data) =
                     {t \in AccessibleTransactions(response.user) :
                         /\ InDurationWindow(t.transaction_date, params.duration, Today)
                         /\ InDateRange(t.transaction_date, params.start_date,
                                        params.end_date)}

\* C16 witness: duration=LAST_7_DAYS with a start_date older than 7 days ago
\* is answered with an empty list although the caller has a transaction dated
\* after that start_date (more than 7 days ago).
LastSevenDaysWithOlderStartServed ==
    /\ response.op = "transaction_list"
    /\ response.status = "ok"
    /\ response.data = <<>>
    /\ \E params \in ListRequests(response) :
         /\ params.duration = {"LAST_7_DAYS"}
         /\ \E d \in params.start_date :
              /\ Today - d > 7
              /\ \E t \in AccessibleTransactions(response.user) : d <= t.transaction_date

\* a member parameter that is the id of no Member row
IdentifiesNoMember(member) == member # {} /\ \A m \in Member : member # {m.id}

\* C17: a member filter that identifies no Member (unparsable or non-existent)
\* is never answered with an error: Transaction-list returns no row, and
\* Summary, for a cashbook the caller can see, returns totals of zero.
MemberFilterWithoutMemberNeverErrors ==
    /\ response.op = "transaction_list" =>
         \A params \in ListRequests(response) :
             IdentifiesNoMember(params.member) =>
                 response.status = "ok" /\ response.data = <<>>
    /\ (response.op = "summary" /\ response.status \notin {"BadRequest", "NotFound"}) =>
         \A params \in SummaryRequests(response) :
             IdentifiesNoMember(params.member) =>
                 response.status = "ok" /\ response.data = Totals({})

(* --------------------- Cashbook-create and its Business ----------------- *)

\* the user owns a Business
OwnsBusiness(user) == \E b \in Business : b.owner = user

\* C18: a Cashbook-create call that names no Business that does not exist
\* creates a Business owned by the caller if and only if the caller owned none
\* when it was made, and a cashbook it creates belongs to a Business of the caller.
CashbookCreateMakesBusinessIffNone ==
    [][response'.op = "cashbook_create" =>
          \A user \in Users, data \in CashbookPayloads :
              (data.business \subseteq Ids(Business) /\ CashbookCreate(user, data)) =>
                  /\ (Business' # Business) <=> ~OwnsBusiness(user)
                  /\ \A b \in Business' \ Business : b.owner = user
                  /\ \A c \in Cashbook' \ Cashbook :
                       \E b \in Business' : b.id = c.business /\ b.owner = user]_vars

(* ------------------------ rejected transactions ------------------------ *)

\* a payload whose amount is not positive
NonPositiveAmount(data) == \E amount \in data.amount : amount <= 0

\* a payload without category, payment mode or amount
LacksRequired(data) == data.category = {} \/ data.payment_mode = {} \/ data.amount = {}

\* the payloads a create must reject, and those an update must reject
RejectedOnCreate == {data \in TransactionPayloads : NonPositiveAmount(data) \/ LacksRequired(data)}

RejectedOnUpdate == {data \in TransactionPayloads : NonPositiveAmount(data)}

\* C19: in every reachable state, a Transaction create with an amount <= 0 or
\* without category, payment mode or amount, and an update with an amount <= 0
\* of a transaction the caller can see, can only end in a ValidationError with
\* the store unchanged; and every stored Transaction has amount > 0.
InvalidTransactionsAreRejected ==
    /\ \A t \in Transaction : t.amount > 0
    /\ \A user \in Users, data \in RejectedOnCreate :
         ~ENABLED (/\ TransactionCreate(user, data)
                   /\ ~(response'.status = "ValidationError" /\ UNCHANGED store))
    /\ \A user \in Users, data \in RejectedOnUpdate :
         \A pk \in Ids(TransactionQueryset(user)) :
             ~ENABLED (/\ TransactionUpdate(user, pk, data)
                       /\ ~(response'.status = "ValidationError" /\ UNCHANGED store))

\* C19 witness: an update has just been rejected with a ValidationError while
\* the transaction it named is stored with its positive amount.
TransactionUpdateRejected ==
    /\ response.op = "transaction_update"
    /\ response.status = "ValidationError"
    /\ \E t \in Transaction : t.id = response.pk /\ t.amount > 0

(* ------------------------- user-role capabilities ----------------------- *)

\* the caller is the owner of the business or holds one of these roles in it
OwnerOrRole(user, business, roles) ==
    IsOwner(user, business) \/ \E member \in Membership(user, business) : member.role \in roles

\* C20: an answered user-role call reports can_create and can_edit as true
\* exactly when the caller is owner, ADMIN or EDITOR of the cashbook's business,
\* and can_delete as true exactly when the caller is owner or ADMIN.
UserRoleCapabilitiesMatchRole ==
    (response.op = "user_role" /\ response.status = "ok") =>
        LET business == Row(Cashbook, response.pk).business
        IN /\ response.data.can_create = OwnerOrRole(response.user, business, {"ADMIN", "EDITOR"})
           /\ response.data.can_edit = OwnerOrRole(response.user, business, {"ADMIN", "EDITOR"})
           /\ response.data.can_delete = OwnerOrRole(response.user, business, {"ADMIN"})

(* ------------- specification: totals read while others write ----------- *)
\* No transaction.atomic surrounds the read handlers: each aggregate() is a
\* query of its own, and a write of another request may commit between two of
\* them. A read in flight lives in a slot of req: pc is the query it runs
\* next, obj holds its local variables, before the Transaction tables its
\* queries of the current cashbook ran against.

\* the local variables of a totals read
Locals(op, user, cashbooks, cashbook, amount__sum, data) ==
    [op |-> op, user |-> user, cashbooks |-> cashbooks, cashbook |-> cashbook,
     total_in |-> amount__sum, data |-> data]

\* no read is in flight
NoReadInFlight == \A q \in 1..MaxRequests : req[q].pc \in {"idle", "done"}

\* SummaryView.get up to the access check (exists()); a cashbook the caller can see
SummaryGet(r, user, cashbook_id) ==
    /\ NoReadInFlight
    /\ cashbook_id \in Ids(CashbookQueryset(user))
    /\ req' = [NoRequests EXCEPT ![r] =
                  [pc |-> "total_in",
                   obj |-> {Locals("summary", user, {}, cashbook_id, 0, {})},
                   before |-> {Transaction}]]
    /\ UNCHANGED <<store, response>>

\* ReportsViewSet.list up to the first turn of `for cashbook in cashbooks`
ReportsList(r, user) ==
    /\ NoReadInFlight
    /\ \E cashbook \in CashbookQueryset(user) :
         req' = [NoRequests EXCEPT ![r] =
                    [pc |-> "total_in",
                     obj |-> {Locals("report_list", user,
                                     Ids(CashbookQueryset(user)) \ {cashbook.id},
                                     cashbook.id, 0, {})},
                     before |-> {Transaction}]]
    /\ UNCHANGED <<store, response>>

\* total_in = ....filter(type='IN').aggregate(Sum('amount'))['amount__sum'] or 0
ReadTotalIn(r) ==
    /\ req[r].pc = "total_in"
    /\ \E locals \in req[r].obj :
         req' = [req EXCEPT ![r] =
                    [pc |-> "total_out",
                     obj |-> {[locals EXCEPT !.total_in =
                                  Sum({t \in Transaction :
                                         t.cashbook = locals.cashbook /\ t.type = "IN"})]},
                     before |-> req[r].before \cup {Transaction}]]
    /\ UNCHANGED <<store, response>>

\* the totals of one cashbook once total_out has been read, with the tables
\* its two queries ran against
Entry(locals, during) ==
    [id |-> locals.cashbook,
     total_in |-> locals.total_in,
     total_out |-> Sum({t \in Transaction : t.cashbook = locals.cashbook /\ t.type = "OUT"}),
     net_balance |-> locals.total_in
                     - Sum({t \in Transaction : t.cashbook = locals.cashbook /\ t.type = "OUT"}),
     during |-> during]

\* an entry as the response carries it: the three totals, in the Reports list
\* with the cashbook's id
Returned(op, entry) ==
    IF op = "summary"
    THEN [total_in |-> entry.total_in, total_out |-> entry.total_out,
          net_balance |-> entry.net_balance]
    ELSE [id |-> entry.id, total_in |-> entry.total_in, total_out |-> entry.total_out,
          net_balance |-> entry.net_balance]

\* total_out = ....filter(type='OUT').aggregate(...); net_balance; then the
\* response (Summary, or the last cashbook of the list) or the next cashbook
ReadTotalOut(r) ==
    /\ req[r].pc = "total_out"
    /\ \E locals \in req[r].obj :
         LET data == locals.data \cup {Entry(locals, req[r].before \cup {Transaction})}
         IN IF locals.cashbooks = {}
            THEN /\ req' = [req EXCEPT ![r] =
                               [pc |-> "done",
                                obj |-> {[locals EXCEPT !.data = data]},
                                before |-> {}]]
                 /\ response' = Read(locals.op, locals.user,
                                     IF locals.op = "summary" THEN locals.cashbook ELSE NoId,
                                     "ok",
                                     IF locals.op = "summary"
                                     THEN Returned(locals.op, CHOOSE entry \in data : TRUE)
                                     ELSE {Returned(locals.op, entry) : entry \in data})
            ELSE /\ \E cashbook \in locals.cashbooks :
                      req' = [req EXCEPT ![r] =
                                 [pc |-> "total_in",
                                  obj |-> {[locals EXCEPT !.data = data,
                                                          !.cashbook = cashbook,
                                                          !.cashbooks = locals.cashbooks \ {cashbook}]},
                                  before |-> {Transaction}]]
                 /\ UNCHANGED response
    /\ UNCHANGED store

\* at most one write commits between two queries of a read: every table a
\* read's totals could stand for is one a query of it ran against
Observed ==
    \A r \in 1..MaxRequests :
        req[r].pc \in {"total_in", "total_out"} => Transaction \in req[r].before

\* the writes sent while a read is served: to cashbook 1, with category 1 and
\* payment mode 1, any type, any amount or none
InterleavedPayloads ==
    {data \in TransactionPayloads :
        /\ data.cashbook \subseteq {1}
        /\ data.category = {1}
        /\ data.payment_mode = {1}
        /\ data.party = {}}

\* u1 owns business 1 and u2 business 2, one cashbook each; u2 is a VIEWER of
\* business 1
InitInterleaved ==
    /\ Business = {[id |-> 1, owner |-> "u1"], [id |-> 2, owner |-> "u2"]}
    /\ Cashbook = {[id |-> 1, business |-> 1, is_default |-> FALSE],
                   [id |-> 2, business |-> 2, is_default |-> FALSE]}
    /\ Member = {[id |-> 1, user |-> "u2", business |-> 1, role |-> "VIEWER"]}
    /\ Category = {[id |-> 1, business |-> 1, name |-> "n1"]}
    /\ Party = {}
    /\ PaymentMode = {[id |-> 1, business |-> 1, name |-> "n1"]}
    /\ Transaction = {}
    /\ response = Resp("none", NoId, "none")
    /\ req = NoRequests

NextInterleaved ==
    \/ \E r \in 1..MaxRequests, user \in Users, cashbook_id \in CashbookIds :
         SummaryGet(r, user, cashbook_id)
    \/ \E r \in 1..MaxRequests, user \in Users : ReportsList(r, user)
    \/ \E r \in 1..MaxRequests : ReadTotalIn(r)
    \/ \E r \in 1..MaxRequests : ReadTotalOut(r)
    \/ \E user \in Users, data \in InterleavedPayloads :
         Observed /\ TransactionCreate(user, data)
    \/ \E user \in Users, pk \in TransactionIds, data \in InterleavedPayloads :
         Observed /\ TransactionUpdate(user, pk, data)
    \/ \E user \in Users, pk \in TransactionIds : Observed /\ TransactionDestroy(user, pk)

SpecInterleaved == InitInterleaved /\ [][NextInterleaved]_vars

\* C21: the totals a Summary or a Reports list returns for a cashbook are the
\* IN sum, the OUT sum and their difference of one Transaction table that was
\* in the store while the read was served.
TotalsAreOfOneStoreState ==
    \A r \in 1..MaxRequests :
        \A locals \in req[r].obj :
            \A entry \in locals.data :
                \E table \in entry.during :
                    /\ entry.total_in =
                         Sum({t \in table : t.cashbook = entry.id /\ t.type = "IN"})
                    /\ entry.total_out =
                         Sum({t \in table : t.cashbook = entry.id /\ t.type = "OUT"})
                    /\ entry.net_balance = entry.total_in - entry.total_out

(* ----------------------- equal sort keys in the scan -------------------- *)

\* rows displayed newest first whose transactions with equal
\* (transaction_date, created_at) were scanned in the order of their inserts
\* (StoredLedgers numbers the transactions in that order)
TiesInInsertOrder(rows) ==
    \A i, j \in DOMAIN rows :
        (/\ i < j
         /\ rows[i].txn.transaction_date = rows[j].txn.transaction_date
         /\ rows[i].txn.created_at = rows[j].txn.created_at)
        => rows[j].txn.id < rows[i].txn.id

\* C22: the scan of Transaction-list and of the report takes transactions with
\* equal sort keys in the order in which they were persisted.
EqualKeysScannedInInsertOrder ==
    /\ (response.op = "transaction_list" /\ response.status = "ok") =>
         TiesInInsertOrder(response.data)
    /\ (response.op = "report_retrieve" /\ response.status = "ok") =>
         TiesInInsertOrder(response.data.transactions)

(* --------------------------- empty working sets ------------------------- *)

\* C23: for a cashbook without transactions the report has no row and
\* total_in = total_out = net_balance = 0, and Summary returns the same zeros.
EmptyWorkingSetGivesZeros ==
    /\ (/\ response.op = "report_retrieve"
        /\ response.status = "ok"
        /\ \A t \in Transaction : t.cashbook # response.pk) =>
           /\ response.data.transactions = <<>>
           /\ response.data.total_in = 0
           /\ response.data.total_out = 0
           /\ response.data.net_balance = 0
    /\ (/\ response.op = "summary"
        /\ response.status = "ok"
        /\ \A t \in Transaction : t.cashbook # response.pk) =>
           /\ response.data.total_in = 0
           /\ response.data.total_out = 0
           /\ response.data.net_balance = 0

\* C23 witness: Summary has answered for a cashbook without transactions while
\* another cashbook of the business has some.
SummaryOfEmptyCashbookServed ==
    /\ response.op = "summary"
    /\ response.status = "ok"
    /\ Transaction # {}
    /\ \A t \in Transaction : t.cashbook # response.pk
    /\ response.data.net_balance = 0

(* ------------------ the cashbook a transaction is moved to -------------- *)

\* the update has put transaction pk into a cashbook of a business in which
\* the user is neither owner, ADMIN nor EDITOR
MovedOutOfReach(user, pk) ==
    \E t \in Transaction' :
        /\ t.id = pk
        /\ ~OwnerOrRole(user, CashbookBusiness(t.cashbook), {"ADMIN", "EDITOR"})

\* C24: in no reachable state can a Transaction update succeed and leave the
\* transaction in a cashbook of a business in which the updating user is
\* neither owner, ADMIN nor EDITOR.
UpdateKeepsTransactionInWritableCashbook ==
    \A user \in Users, pk \in Ids(Transaction), data \in TransactionPayloads :
        ~ENABLED (/\ TransactionUpdate(user, pk, data)
                  /\ response'.status = "ok"
                  /\ MovedOutOfReach(user, pk))

(* ------------------- the business of a transaction's references --------- *)

\* a reference of a transaction is null or a row of the business
InBusiness(table, pk, business) ==
    pk = NoId \/ \E x \in table : x.id = pk /\ x.business = business

\* C25: in every reachable state the category, party and payment mode of a
\* Transaction, when not null, belong to the Business of its cashbook.
ReferencesBelongToCashbookBusiness ==
    \A t \in Transaction :
        /\ InBusiness(Category, t.category, CashbookBusiness(t.cashbook))
        /\ InBusiness(Party, t.party, CashbookBusiness(t.cashbook))
        /\ InBusiness(PaymentMode, t.payment_mode, CashbookBusiness(t.cashbook))

(* ------------- specification: cashbook writes by a member -------------- *)
\* u1 owns business 1 with one cashbook; u2 is a VIEWER of it and owns nothing
InitCashbookRoles ==
    /\ Business = {[id |-> 1, owner |-> "u1"]}
    /\ Cashbook = {[id |-> 1, business |-> 1, is_default |-> FALSE]}
    /\ Member = {[id |-> 1, user |-> "u2", business |-> 1, role |-> "VIEWER"]}
    /\ Category = {}
    /\ Party = {}
    /\ PaymentMode = {}
    /\ Transaction = {}
    /\ response = Resp("none", NoId, "none")
    /\ req = NoRequests

NextCashbookRoles ==
    \/ \E user \in Users : BusinessCreate(user)
    \/ \E user \in Users, data \in CashbookPayloads : CashbookCreate(user, data)
    \/ \E user \in Users, pk \in CashbookIds, data \in CashbookPayloads : CashbookUpdate(user, pk, data)
    \/ \E user \in Users, pk \in CashbookIds : CashbookDestroy(user, pk)

SpecCashbookRoles == InitCashbookRoles /\ [][NextCashbookRoles]_vars

\* the update has put cashbook pk under a Business the user neither owns nor
\* is a member of
ReassignedOutOfReach(user, pk) ==
    \E c \in Cashbook' : c.id = pk /\ ~HasAccess(user, c.business)

\* C26: in no reachable state can a user who is neither owner, ADMIN nor EDITOR
\* of a cashbook's business change or delete the cashbook, and no update can
\* put a cashbook under a Business its caller neither owns nor is a member of.
CashbookWritesNeedWriteRole ==
    \A user \in Users, pk \in Ids(Cashbook) :
        /\ ~OwnerOrRole(user, Row(Cashbook, pk).business, {"ADMIN", "EDITOR"}) =>
             /\ ~ENABLED (CashbookDestroy(user, pk) /\ Cashbook' # Cashbook)
             /\ \A data \in CashbookPayloads :
                  ~ENABLED (CashbookUpdate(user, pk, data) /\ Cashbook' # Cashbook)
        /\ \A data \in CashbookPayloads :
             ~ENABLED (CashbookUpdate(user, pk, data) /\ ReassignedOutOfReach(user, pk))

=============================================================================
